---------------------------- MODULE Spec2Model ----------------------------
(***************************************************************************)
(* A model of pycptcore (src/src/pycptcore/main.py): the two validated     *)
(* tables CPTTable and LayerTable, their factories and tabular view, and   *)
(* the SoilProperties aggregate with its composite plot.                   *)
(*                                                                         *)
(* Python objects are modelled by reference: a list lives in `heap` under  *)
(* an identity, and dictionaries and tables hold identities, so that what  *)
(* a caller does to a list it still holds is visible through every holder. *)
(***************************************************************************)
EXTENDS Integers, Sequences, FiniteSets, TLC

VARIABLES
    cls,            \* the table class the caller works with
    response_dict,  \* the caller's dictionary: present key -> list identity
    heap,           \* list identity -> the list's current contents
    args,           \* the arguments of the last constructor call
    table,          \* the table the last constructor call returned, or NoTable
    exc,            \* the exception the last call raised, or "none"
    df,             \* the frame the last `dataframe` access returned
    last,           \* the last operation performed
    mutated,        \* whether the caller has changed the response since
    response_parse, \* the parse response handed to SoilProperties
    classify_given, \* whether a classify response was passed
    soil,           \* the SoilProperties aggregate, or NoSoil
    figs,           \* the figures pyplot has created, oldest first
    TickLoc         \* the module-level locator: the figure whose axis it is bound to

tvars == <<cls, response_dict, heap, args, table, exc, df, last, mutated>>
pvars == <<response_parse, classify_given, soil, figs, TickLoc>>
vars == <<cls, response_dict, heap, args, table, exc, df, last, mutated,
          response_parse, classify_given, soil, figs, TickLoc>>

-----------------------------------------------------------------------------
(* Bounds of the model *)

MaxLen == 2
MaxNone == 2
MaxFigs == 2
MaxCalls == 1

-----------------------------------------------------------------------------
(* Python values *)

\* None where a reference (a list, a string) is expected
None == "None"

\* a JSON value: null, or the value v
Null == <<>>
Some(v) == <<v>>

\* no table held, no constructor called yet, no aggregate held
NoTable == <<>>
NoArgs == <<>>
NoSoil == <<>>

\* dict.get(key, default)
Get(d, key, default) == IF key \in DOMAIN d THEN d[key] ELSE default

-----------------------------------------------------------------------------
(* The two table classes *)

CPTFields ==
    {"penetrationLength", "depthOffset", "coneResistance", "localFriction",
     "frictionRatio"}

LayerFields ==
    {"geotechnicalSoilName", "lowerBoundary", "upperBoundary", "color",
     "mainComponent", "cohesion", "gamma_sat", "gamma_unsat", "phi",
     "undrainedShearStrength"}

Fields(c) == IF c = "CPTTable" THEN CPTFields ELSE LayerFields

\* the keys a factory reads from the response
CPTKeys == CPTFields \cup {"depth", "frictionRatioComputed"}

Keys(c) == IF c = "CPTTable" THEN CPTKeys ELSE LayerFields

\* len(values): None has no len()
HasLen(a) == a # None

\* A mutated length check, which tolerates two distinct lengths.
PostInitTwoLengths(a, h) ==
    IF \E f \in DOMAIN a : ~HasLen(a[f]) THEN "TypeError"
    ELSE IF Cardinality({Len(h[a[f]]) : f \in DOMAIN a}) > 2 THEN "ValueError"
    ELSE "none"

\* __post_init__: raw_lengths = [len(v) ...]; more than one distinct -> ValueError
PostInit(a, h) ==
    IF \E f \in DOMAIN a : ~HasLen(a[f]) THEN "TypeError"
    ELSE IF Cardinality({Len(h[a[f]]) : f \in DOMAIN a}) > 1 THEN "ValueError"
    ELSE "none"

\* A mutated alias lookup, in which the key penetrationLength wins over depth.
CPTTableArgsPrimaryFirst(d) ==
    [penetrationLength |-> Get(d, "penetrationLength", Get(d, "depth", None)),
     depthOffset       |-> Get(d, "depthOffset", None),
     coneResistance    |-> Get(d, "coneResistance", None),
     localFriction     |-> Get(d, "localFriction", None),
     frictionRatio     |-> Get(d, "frictionRatio",
                               Get(d, "frictionRatioComputed", None))]

\* CPTTable.from_api_response: the keyword arguments handed to cls(...)
CPTTableArgs(d) ==
    [penetrationLength |-> Get(d, "depth", Get(d, "penetrationLength", None)),
     depthOffset       |-> Get(d, "depthOffset", None),
     coneResistance    |-> Get(d, "coneResistance", None),
     localFriction     |-> Get(d, "localFriction", None),
     frictionRatio     |-> Get(d, "frictionRatio",
                               Get(d, "frictionRatioComputed", None))]

\* LayerTable.from_api_response: the keyword arguments handed to cls(...)
LayerTableArgs(d) ==
    [geotechnicalSoilName   |-> Get(d, "geotechnicalSoilName", None),
     lowerBoundary          |-> Get(d, "lowerBoundary", None),
     upperBoundary          |-> Get(d, "upperBoundary", None),
     color                  |-> Get(d, "color", None),
     mainComponent          |-> Get(d, "mainComponent", None),
     cohesion               |-> Get(d, "cohesion", None),
     gamma_sat              |-> Get(d, "gamma_sat", None),
     gamma_unsat            |-> Get(d, "gamma_unsat", None),
     phi                    |-> Get(d, "phi", None),
     undrainedShearStrength |-> Get(d, "undrainedShearStrength", None)]

FactoryArgs(c, d) == IF c = "CPTTable" THEN CPTTableArgs(d) ELSE LayerTableArgs(d)

\* the columns of a table: field -> current contents of the list it refers to
Columns(t, h) == [f \in DOMAIN t |-> h[t[f]]]

\* pandas.DataFrame(dict of lists): arrays of unequal length are refused
FrameError(cols) == Cardinality({Len(cols[f]) : f \in DOMAIN cols}) > 1

NRows(cols) == LET f == CHOOSE g \in DOMAIN cols : TRUE IN Len(cols[f])

\* pandas.DataFrame(dict of lists): one row per index, index starting at 0
DataFrame(cols) ==
    [i \in 1..NRows(cols) |->
        [index |-> i - 1, row |-> [f \in DOMAIN cols |-> cols[f][i]]]]

IsNa(v) == v = Null

\* A mutated drop, which removes a row only when all of its values are missing.
DropNaAll(frame) ==
    SelectSeq(frame, LAMBDA r : ~(\A f \in DOMAIN r.row : IsNa(r.row[f])))

\* DataFrame.dropna(axis="rows", how="any")
DropNa(frame) ==
    SelectSeq(frame, LAMBDA r : ~(\E f \in DOMAIN r.row : IsNa(r.row[f])))

-----------------------------------------------------------------------------
(* The responses a caller may hold *)

Cells(K, n) == K \X (1..n)

\* every set of at most MaxNone cells of an n-row response with keys K
NoneSets(K, n) ==
    {{c[j] : j \in {i \in 1..MaxNone : c[i] \in Cells(K, n)}} :
        c \in [1..MaxNone -> Cells(K, n) \cup {<<None, 0>>}]}

\* A JSON-decoded response: every present key owns a list of its own.
\* Either the lists hold numbers and differ in presence and length, or all
\* consumed primary keys are present with n rows and some cells are null.
InitTable ==
    /\ cls \in {"CPTTable", "LayerTable"}
    /\ \/ \E K \in SUBSET Keys(cls) :
            \E len \in [K -> {MaxLen - 1, MaxLen}] :
                /\ response_dict = [k \in K |-> k]
                /\ heap = [k \in K |-> [i \in 1..len[k] |-> Some(i)]]
       \/ \E n \in 0..MaxLen :
            \E S \in NoneSets(Fields(cls), n) :
                /\ response_dict = [k \in Fields(cls) |-> k]
                /\ heap = [k \in Fields(cls) |->
                             [i \in 1..n |-> IF <<k, i>> \in S THEN Null ELSE Some(i)]]
    /\ args = NoArgs
    /\ table = NoTable
    /\ exc = "none"
    /\ df = <<>>
    /\ last = "start"
    /\ mutated = FALSE

\* cls(...) : the dataclass constructor, __init__ followed by __post_init__
New(a) ==
    /\ args' = a
    /\ exc' = PostInit(a, heap)
    /\ table' = IF PostInit(a, heap) = "none" THEN a ELSE NoTable
    /\ df' = <<>>

\* The caller constructs the table directly from the lists it holds.
Construct ==
    /\ Fields(cls) \subseteq DOMAIN response_dict
    /\ New([f \in Fields(cls) |-> response_dict[f]])
    /\ last' = "construct"
    /\ UNCHANGED <<cls, response_dict, heap, mutated>>
    /\ UNCHANGED pvars

\* CPTTable.from_api_response / LayerTable.from_api_response
FromApiResponse ==
    /\ New(FactoryArgs(cls, response_dict))
    /\ last' = "from_api_response"
    /\ UNCHANGED <<cls, response_dict, heap, mutated>>
    /\ UNCHANGED pvars

\* The `dataframe` property of the table the caller holds.
Dataframe ==
    /\ table # NoTable
    /\ LET cols == Columns(table, heap) IN
         IF FrameError(cols)
         THEN /\ exc' = "ValueError"
              /\ df' = <<>>
         ELSE /\ exc' = "none"
              /\ df' = DropNa(DataFrame(cols))
    /\ last' = "dataframe"
    /\ UNCHANGED <<cls, response_dict, heap, args, table, mutated>>
    /\ UNCHANGED pvars

\* The caller appends to a list of the response it passed to the factory
\* (the one change it makes to the response).
CallerAppend(id) ==
    /\ table # NoTable
    /\ ~mutated
    /\ heap' = [heap EXCEPT ![id] = Append(@, Some(Len(@) + 1))]
    /\ mutated' = TRUE
    /\ last' = "caller_append"
    /\ df' = <<>>
    /\ UNCHANGED <<cls, response_dict, args, table, exc>>
    /\ UNCHANGED pvars

\* The caller deletes a key of the response it passed to the factory
\* (the one change it makes to the response).
CallerDelKey(k) ==
    /\ table # NoTable
    /\ ~mutated
    /\ response_dict' = [j \in DOMAIN response_dict \ {k} |-> response_dict[j]]
    /\ mutated' = TRUE
    /\ last' = "caller_del"
    /\ df' = <<>>
    /\ UNCHANGED <<cls, heap, args, table, exc>>
    /\ UNCHANGED pvars

PlotIdle ==
    /\ response_parse = <<>>
    /\ classify_given = FALSE
    /\ soil = NoSoil
    /\ figs = <<>>
    /\ TickLoc = 0

Init == InitTable /\ PlotIdle

Next ==
    \/ Construct
    \/ FromApiResponse
    \/ Dataframe
    \/ \E id \in DOMAIN heap : CallerAppend(id)
    \/ \E k \in DOMAIN response_dict : CallerDelKey(k)

Spec == Init /\ [][Next]_vars

-----------------------------------------------------------------------------
(* matplotlib: figures and axes *)

\* lengths along the x axis are kept in hundredths (0.8 MPa is 80)
Hundredths(units) == 100 * units

\* a fresh Axes: default limits, not inverted, a locator of its own
NewAxes ==
    [xlim        |-> <<0, Hundredths(1)>>,
     xlabel      |-> "",
     xlabel_color |-> "black",
     top_spine   |-> Hundredths(1),
     xticks      |-> [major |-> {}, minor |-> {}],
     xticklabels |-> "auto",
     yinv        |-> FALSE,
     ylocator    |-> "own",
     hlines      |-> {},
     traces      |-> <<>>,
     patches     |-> <<>>]

\* plt.subplots(): one figure with one Axes
SingleFigure ==
    [kind   |-> "single",
     axes   |-> [a \in {"ax"} |-> NewAxes],
     sharey |-> {"ax"},
     calls  |-> 0,
     raised |-> FALSE]

CompositeAxes == {"ax_qc", "ax_layers", "ax_rf", "ax_fs"}

\* plt.subplots(1, 2, sharey="row") followed by two ax_qc.twiny():
\* four Axes on one shared vertical axis
CompositeFigure ==
    [kind   |-> "composite",
     axes   |-> [a \in CompositeAxes |-> NewAxes],
     sharey |-> CompositeAxes,
     calls  |-> 0,
     raised |-> FALSE]

\* the Axes that share the vertical axis of `ax`
Siblings(fig, ax) == IF ax \in fig.sharey THEN fig.sharey ELSE {ax}

\* A mutated inversion, which sets the axis inverted whatever it was.
SetYAxisInverted(fig, ax) ==
    [fig EXCEPT !.axes = [a \in DOMAIN fig.axes |->
        IF a \in Siblings(fig, ax)
        THEN [fig.axes[a] EXCEPT !.yinv = TRUE]
        ELSE fig.axes[a]]]

\* Axes.invert_yaxis(): set_inverted(not get_inverted()); the new limits
\* reach every Axes sharing the axis
InvertYAxis(fig, ax) ==
    [fig EXCEPT !.axes = [a \in DOMAIN fig.axes |->
        IF a \in Siblings(fig, ax)
        THEN [fig.axes[a] EXCEPT !.yinv = ~fig.axes[ax].yinv]
        ELSE fig.axes[a]]]

\* Axes.invert_xaxis(): the x axes of twinned Axes are independent
InvertXAxis(fig, ax) ==
    [fig EXCEPT !.axes[ax].xlim = <<@[2], @[1]>>]

\* Axis.set_major_locator(locator) on the vertical axis: Axes sharing the
\* axis share its Ticker, so the locator is installed for all of them
SetYMajorLocator(fig, ax, loc) ==
    [fig EXCEPT !.axes = [a \in DOMAIN fig.axes |->
        IF a \in Siblings(fig, ax)
        THEN [fig.axes[a] EXCEPT !.ylocator = loc]
        ELSE fig.axes[a]]]

\* the top x axis every CPT trace sets up
TopAxis(fig, ax, spine, lim, label, color) ==
    [fig EXCEPT !.axes[ax] =
        [@ EXCEPT !.top_spine = spine, !.xlim = lim, !.xlabel = label,
                  !.xlabel_color = color]]

\* `offset - value` raises TypeError when the offset is None
Minus(offset, value) == offset[1] - value[1]

\* [offset - value for value in self.penetrationLength]
Depths(t, h, offset) ==
    [i \in 1..Len(h[t.penetrationLength]) |->
        Minus(offset, h[t.penetrationLength][i])]

DepthsRaise(t, h, offset) ==
    offset = Null /\ Len(h[t.penetrationLength]) > 0

\* axes.plot(xs, ys, ...), reached only if computing ys did not raise
AddTrace(fig, ax, t, h, offset, xs, color, label) ==
    IF DepthsRaise(t, h, offset)
    THEN [fig EXCEPT !.raised = TRUE]
    ELSE [fig EXCEPT !.axes[ax].traces =
              Append(@, [x |-> xs, y |-> Depths(t, h, offset),
                         color |-> color, label |-> label]),
                     !.calls = @ + 1]

QcXLim == <<0, Hundredths(40)>>
FsXLim == <<0, 80>>
RfXLim == <<0, Hundredths(16)>>
QcSpine == Hundredths(1)
FsSpine == 105
RfSpine == 110

\* CPTTable.plot_cone_resistance on an Axes
PlotConeResistance(fig, ax, t, h, offset) ==
    AddTrace(
        InvertYAxis(TopAxis(fig, ax, QcSpine, QcXLim, "$q_c$ [MPa]", "#2d2e87"), ax),
        ax, t, h, offset, h[t.coneResistance], "#2d2e87", "coneResistance")

\* CPTTable.plot_local_friction on an Axes
PlotLocalFriction(fig, ax, t, h, offset) ==
    AddTrace(
        InvertYAxis(TopAxis(fig, ax, FsSpine, FsXLim, "$f_s$ [MPa]", "#e04913"), ax),
        ax, t, h, offset, h[t.localFriction], "#e04913", "localFriction")

\* CPTTable.plot_friction_ratio on an Axes
PlotFrictionRatio(fig, ax, t, h, offset) ==
    AddTrace(
        InvertYAxis(
            InvertXAxis(TopAxis(fig, ax, RfSpine, RfXLim, "$R_f$ [%]", "tab:gray"), ax),
            ax),
        ax, t, h, offset, h[t.frictionRatio], "tab:gray", "frictionRatio")

\* one filled rectangle and its annotation per row of the frame; the height
\* of the annotation, (lower - upper) / 2 + upper, is kept doubled
LayerPatches(rows, offset) ==
    [j \in 1..Len(rows) |->
        LET lower_boundary == Minus(offset, rows[j].row.lowerBoundary)
            upper_boundary == Minus(offset, rows[j].row.upperBoundary)
        IN  [x      |-> <<0, Hundredths(1)>>,
             lower  |-> lower_boundary,
             upper  |-> upper_boundary,
             color  |-> rows[j].row.color[1],
             text   |-> rows[j].row.geotechnicalSoilName[1],
             text_y_doubled |-> (lower_boundary - upper_boundary) + 2 * upper_boundary]]

\* LayerTable.plot on an Axes: the loop over self.dataframe raises in its
\* first row when the offset is None
LayerTablePlot(fig, ax, t, h, offset) ==
    LET rows == DropNa(DataFrame(Columns(t, h))) IN
    IF offset = Null /\ Len(rows) > 0
    THEN [fig EXCEPT !.raised = TRUE]
    ELSE LET drawn == [fig EXCEPT !.axes[ax].patches = @ \o LayerPatches(rows, offset),
                                  !.calls = @ + 1]
             inverted == InvertYAxis(drawn, ax)
         IN  [inverted EXCEPT !.axes[ax].xticklabels = "none"]

RenderOps ==
    {"plot_cone_resistance", "plot_local_friction", "plot_friction_ratio",
     "layer_table_plot"}

\* the rendering operation `op` of the aggregate's tables on an Axes
Render(op, fig, ax, s, h, offset) ==
    CASE op = "plot_cone_resistance" ->
            PlotConeResistance(fig, ax, s.cpt_table, h, offset)
      [] op = "plot_local_friction" ->
            PlotLocalFriction(fig, ax, s.cpt_table, h, offset)
      [] op = "plot_friction_ratio" ->
            PlotFrictionRatio(fig, ax, s.cpt_table, h, offset)
      [] op = "layer_table_plot" ->
            LayerTablePlot(fig, ax, s.layer_table, h, offset)

-----------------------------------------------------------------------------
(* SoilProperties *)

\* the truth value of an optional number in `if value:`
Truthy(v) == v # Null /\ v[1] # 0

\* the test that guards each reference line in SoilProperties.plot
DrawsLine(v) == Truthy(v)

\* ax.axhline(y=offset - level, ...)
AxHLine(fig, ax, y, color, label) ==
    [fig EXCEPT !.axes[ax].hlines =
        @ \cup {[y |-> y, color |-> color, linestyle |-> "--", label |-> label]}]

GridTicks == [major |-> {5 * i : i \in 0..8}, minor |-> 0..40]

\* a step of plot() is skipped once an earlier step has raised
Then(fig, next) == IF fig.raised THEN fig ELSE next

\* one optional reference line of SoilProperties.plot
ReferenceLine(fig, off, level, color, label) ==
    IF ~DrawsLine(level) THEN fig
    ELSE IF off = Null THEN [fig EXCEPT !.raised = TRUE]
    ELSE AxHLine(fig, "ax_qc", Minus(off, level), color, label)

\* the body of SoilProperties.plot: the figure as it stands when the method
\* returns it, or when a step raises
SoilPlot(s, h) ==
    LET off  == s.verticalPositionOffset
        f0   == [CompositeFigure EXCEPT !.axes["ax_qc"].xticks = GridTicks]
        f1   == SetYMajorLocator(f0, "ax_qc", "TickLoc")
        f2   == ReferenceLine(f1, off, s.groundwaterLevel, "tab:blue",
                              "Groundwater level")
        f3   == Then(f2, ReferenceLine(f2, off, s.predrilledDepth, "tab:brown",
                                       "Surface level"))
        f4   == Then(f3, PlotConeResistance(f3, "ax_qc", s.cpt_table, h, off))
        f5   == Then(f4, PlotLocalFriction(f4, "ax_fs", s.cpt_table, h, off))
        f6   == Then(f5, PlotFrictionRatio(f5, "ax_rf", s.cpt_table, h, off))
    IN  Then(f6, LayerTablePlot(f6, "ax_layers", s.layer_table, h, off))

\* the Location a parse response yields
LocationOf(d) ==
    LET location == Get(d, "location", <<>>) IN
    [lat      |-> Get(location, "lat", Null),
     long     |-> Get(location, "long", Null),
     srs_name |-> Get(location, "srs", None)]

\* SoilProperties.from_api_response: the location and the survey metadata
SoilMeta(d) ==
    [location |-> LocationOf(d),
     verticalPositionReferencePoint |->
        Get(d, "verticalPositionReferencePoint", "Unknown"),
     verticalPositionOffset |-> Get(d, "verticalPositionOffset", Some(0)),
     predrilledDepth |-> Get(d, "predrilledDepth", Null),
     label |-> Get(d, "label", "Unknown"),
     groundwaterLevel |-> Get(d, "groundwaterLevel", Null)]

-----------------------------------------------------------------------------
(* The responses handed to SoilProperties *)

\* the lists of a decoded parse and classify response, two rows each
SampleHeap ==
    [k \in CPTFields \cup LayerFields |->
        CASE k = "color" -> <<Some("#a0a0a0"), Some("#c0c0c0")>>
          [] k = "geotechnicalSoilName" -> <<Some("Za"), Some("Kl")>>
          [] k = "mainComponent" -> <<Some("sand"), Some("clay")>>
          [] k = "upperBoundary" -> <<Some(0), Some(1)>>
          [] OTHER -> <<Some(1), Some(2)>>]

ParseData == [k \in CPTFields |-> k]
response_classify == [k \in LayerFields |-> k]
LocationBlock == [lat |-> Some(52), long |-> Some(4), srs |-> "EPSG:4326"]

ParseKeys ==
    {"data", "location", "verticalPositionReferencePoint",
     "verticalPositionOffset", "predrilledDepth", "label", "groundwaterLevel"}

OffsetValues == {Null, Some(0), Some(5)}
DepthValues == {Null, Some(0), Some(1)}
LevelValues == {Null, Some(0), Some(2)}

ParseValue(k, off, pd, gw) ==
    CASE k = "data" -> ParseData
      [] k = "location" -> LocationBlock
      [] k = "verticalPositionReferencePoint" -> "NAP"
      [] k = "verticalPositionOffset" -> off
      [] k = "predrilledDepth" -> pd
      [] k = "label" -> "CPT-01"
      [] k = "groundwaterLevel" -> gw

TableIdle ==
    /\ cls = "CPTTable"
    /\ response_dict = <<>>
    /\ heap = SampleHeap
    /\ args = NoArgs
    /\ table = NoTable
    /\ exc = "none"
    /\ df = <<>>
    /\ last = "start"
    /\ mutated = FALSE

InitPlot ==
    /\ TableIdle
    /\ \E K \in SUBSET ParseKeys, off \in OffsetValues, pd \in DepthValues,
          gw \in LevelValues :
            response_parse = [k \in K |-> ParseValue(k, off, pd, gw)]
    /\ classify_given = FALSE
    /\ soil = NoSoil
    /\ figs = <<>>
    /\ TickLoc = 0

\* SoilProperties.from_api_response(response_parse[, response_classify]):
\* without the second argument the call itself is refused
SoilFromApiResponse(given) ==
    /\ classify_given' = given
    /\ last' = "soil_from_api_response"
    /\ IF ~given
       THEN /\ exc' = "TypeError"
            /\ soil' = NoSoil
       ELSE LET cpt   == CPTTableArgs(Get(response_parse, "data", <<>>))
                layer == LayerTableArgs(response_classify)
            IN  IF PostInit(cpt, heap) # "none"
                THEN /\ exc' = PostInit(cpt, heap)
                     /\ soil' = NoSoil
                ELSE IF PostInit(layer, heap) # "none"
                THEN /\ exc' = PostInit(layer, heap)
                     /\ soil' = NoSoil
                ELSE /\ exc' = "none"
                     /\ soil' = [cpt_table |-> cpt, layer_table |-> layer]
                                   @@ SoilMeta(response_parse)
    /\ UNCHANGED <<cls, response_dict, heap, args, table, df, mutated>>
    /\ UNCHANGED <<response_parse, figs, TickLoc>>

\* result.set_layer_table_from_api_response(...): SoilProperties defines no
\* such attribute
SetLayerTableFromApiResponse ==
    /\ soil # NoSoil
    /\ exc' = "AttributeError"
    /\ last' = "set_layer_table_from_api_response"
    /\ UNCHANGED <<cls, response_dict, heap, args, table, df, mutated>>
    /\ UNCHANGED pvars

\* SoilProperties.plot(): plt.subplots registers a new figure, the
\* module-level locator is bound to the vertical axis of its left panel, and
\* the figure is returned unless a step raised
Plot ==
    /\ soil # NoSoil
    /\ Len(figs) < MaxFigs
    /\ figs' = Append(figs, SoilPlot(soil, heap))
    /\ TickLoc' = Len(figs) + 1
    /\ exc' = IF SoilPlot(soil, heap).raised THEN "TypeError" ELSE "none"
    /\ last' = "plot"
    /\ UNCHANGED <<cls, response_dict, heap, args, table, df, mutated>>
    /\ UNCHANGED <<response_parse, classify_given, soil>>

NextPlot ==
    \/ \E given \in BOOLEAN : SoilFromApiResponse(given)
    \/ SetLayerTableFromApiResponse
    \/ Plot

SpecPlot == InitPlot /\ [][NextPlot]_vars

\* the rendering calls made on Axes that already held a rendering
ExtraCalls(fs) ==
    LET base(f) == IF f.kind = "composite" THEN Cardinality(CompositeAxes) ELSE 1
        sum[i \in 0..Len(fs)] ==
            IF i = 0 THEN 0
            ELSE sum[i - 1] + (IF fs[i].raised THEN 0 ELSE fs[i].calls - base(fs[i]))
    IN  sum[Len(fs)]

\* A rendering operation called without Axes: `_, axes = plt.subplots()`
\* creates a figure of its own; offset is the default 0 or the aggregate's.
RenderNew(op, offset) ==
    /\ soil # NoSoil
    /\ soil.verticalPositionOffset # Null
    /\ offset \in {Some(0), soil.verticalPositionOffset}
    /\ Len(figs) < MaxFigs
    /\ figs' = Append(figs, Render(op, SingleFigure, "ax", soil, heap, offset))
    /\ exc' = "none"
    /\ last' = op
    /\ UNCHANGED <<cls, response_dict, heap, args, table, df, mutated>>
    /\ UNCHANGED <<response_parse, classify_given, soil, TickLoc>>

\* A rendering operation called with an Axes of the latest figure.
RenderOn(op, ax) ==
    /\ soil # NoSoil
    /\ soil.verticalPositionOffset # Null
    /\ figs # <<>>
    /\ ~figs[Len(figs)].raised
    /\ ax \in DOMAIN figs[Len(figs)].axes
    /\ ExtraCalls(figs) < MaxCalls
    /\ figs' = [figs EXCEPT ![Len(figs)] =
                    Render(op, @, ax, soil, heap, soil.verticalPositionOffset)]
    /\ exc' = "none"
    /\ last' = op
    /\ UNCHANGED <<cls, response_dict, heap, args, table, df, mutated>>
    /\ UNCHANGED <<response_parse, classify_given, soil, TickLoc>>

RenderOffsets == {Some(5)}

InitRender ==
    /\ TableIdle
    /\ \E K \in SUBSET {"verticalPositionOffset"}, off \in RenderOffsets :
            response_parse =
                [k \in K \cup {"data"} |-> ParseValue(k, off, Null, Some(2))]
    /\ classify_given = FALSE
    /\ soil = NoSoil
    /\ figs = <<>>
    /\ TickLoc = 0

NextRender ==
    \/ \E given \in BOOLEAN : SoilFromApiResponse(given)
    \/ Plot
    \/ \E op \in RenderOps, offset \in RenderOffsets \cup {Some(0)} :
          RenderNew(op, offset)
    \/ \E op \in RenderOps, ax \in CompositeAxes \cup {"ax"} : RenderOn(op, ax)

SpecRender == InitRender /\ [][NextRender]_vars

-----------------------------------------------------------------------------
(* Properties of the tables *)

ConstructorCalled == last \in {"construct", "from_api_response"}

LengthsDiffer(a) ==
    \E f, g \in DOMAIN a : Len(heap[a[f]]) # Len(heap[a[g]])

\* C1: a constructor call whose arguments are all sequences raises ValueError
\* and yields no table exactly when two of the sequences differ in length,
\* whichever fields they are; with equal lengths it returns the table.
C1_LengthValidation ==
    (ConstructorCalled /\ \A f \in DOMAIN args : args[f] # None) =>
        /\ DOMAIN args = Fields(cls)
        /\ LengthsDiffer(args) => (exc = "ValueError" /\ table = NoTable)
        /\ ~LengthsDiffer(args) => (exc = "none" /\ table = args)

\* A LayerTable construction refused because a single field is shorter.
C1_Witness ==
    /\ cls = "LayerTable"
    /\ last = "construct"
    /\ exc = "ValueError"
    /\ table = NoTable
    /\ \E f \in DOMAIN args :
        /\ Len(heap[args[f]]) = MaxLen - 1
        /\ \A g \in DOMAIN args \ {f} : Len(heap[args[g]]) = MaxLen

\* C2: when the response lacks a consumed key, the field is None and the
\* factory raises nothing but the validation error.
C2_MissingKeyOnlyValidationError ==
    (last = "from_api_response" /\ \E f \in DOMAIN args : args[f] = None) =>
        exc \in {"none", "ValueError"}

\* C3 as stated: the primary key wins for both aliased fields.
C3_PrimaryKeyWins ==
    (last = "from_api_response" /\ cls = "CPTTable") =>
        /\ "penetrationLength" \in DOMAIN response_dict =>
              args.penetrationLength = response_dict["penetrationLength"]
        /\ "frictionRatio" \in DOMAIN response_dict =>
              args.frictionRatio = response_dict["frictionRatio"]

\* C3, amended: penetrationLength is taken from `depth` whenever that key is
\* present and from `penetrationLength` only if `depth` is absent;
\* frictionRatio is taken from `frictionRatio` whenever present and from
\* `frictionRatioComputed` only if `frictionRatio` is absent.
C3_AliasOrder ==
    (last = "from_api_response" /\ cls = "CPTTable") =>
        LET d == response_dict
            has(k) == k \in DOMAIN d
        IN  /\ has("depth") => args.penetrationLength = d["depth"]
            /\ (~has("depth") /\ has("penetrationLength")) =>
                  args.penetrationLength = d["penetrationLength"]
            /\ (~has("depth") /\ ~has("penetrationLength")) =>
                  args.penetrationLength = None
            /\ has("frictionRatio") => args.frictionRatio = d["frictionRatio"]
            /\ (~has("frictionRatio") /\ has("frictionRatioComputed")) =>
                  args.frictionRatio = d["frictionRatioComputed"]
            /\ (~has("frictionRatio") /\ ~has("frictionRatioComputed")) =>
                  args.frictionRatio = None

\* A table built from a response holding both `depth` and `penetrationLength`,
\* and both `frictionRatio` and `frictionRatioComputed`.
C3_Witness ==
    /\ cls = "CPTTable"
    /\ last = "from_api_response"
    /\ {"depth", "penetrationLength", "frictionRatio", "frictionRatioComputed"}
          \subseteq DOMAIN response_dict
    /\ table # NoTable
    /\ table.penetrationLength = response_dict["depth"]
    /\ table.frictionRatio = response_dict["frictionRatio"]

\* C4: the frame of a table with n equal-length columns holds exactly the
\* rows without a missing value, in the original order and the same rows in
\* every column; it has at most n rows, and n rows when nothing is missing.
C4_JointDrop ==
    (last = "dataframe" /\ exc = "none") =>
        LET cols == Columns(table, heap)
            n == NRows(cols)
            complete(i) == \A f \in DOMAIN cols : cols[f][i] # Null
        IN  /\ Len(df) <= n
            /\ \A j \in 1..Len(df) - 1 : df[j].index < df[j + 1].index
            /\ \A i \in 1..n :
                  complete(i) <=> \E j \in 1..Len(df) : df[j].index = i - 1
            /\ \A j \in 1..Len(df) :
                  /\ df[j].index \in 0..n - 1
                  /\ \A f \in DOMAIN cols :
                        df[j].row[f] = cols[f][df[j].index + 1]
            /\ (\A i \in 1..n : complete(i)) => Len(df) = n

\* A LayerTable frame that lost a row missing in one column only and kept
\* another row.
C4_Witness ==
    /\ cls = "LayerTable"
    /\ last = "dataframe"
    /\ exc = "none"
    /\ Len(df) >= 1
    /\ LET cols == Columns(table, heap) IN
         \E i \in 1..NRows(cols) :
            /\ Cardinality({f \in DOMAIN cols : cols[f][i] = Null}) = 1
            /\ \A j \in 1..Len(df) : df[j].index # i - 1

\* C8: a table's sequences are its own and never change, so that every
\* existing table has sequences of equal length.
C8_TablesStayEqualLength ==
    table # NoTable => ~LengthsDiffer(table)

-----------------------------------------------------------------------------
(* Properties of the aggregate and its plot *)

LatestFig == figs[Len(figs)]

HasLine(fig, label, y) ==
    \E l \in fig.axes["ax_qc"].hlines : l.label = label /\ l.y = y

HasLabel(fig, label) ==
    \E l \in fig.axes["ax_qc"].hlines : l.label = label

\* C5: a figure returned by plot() carries the groundwater line at
\* offset - groundwaterLevel exactly when groundwaterLevel is present, and
\* the pre-drilled line at offset - predrilledDepth exactly when
\* predrilledDepth is present, for every present value, 0 included.
C5_ReferenceLines ==
    (last = "plot" /\ exc = "none") =>
        LET off == soil.verticalPositionOffset[1] IN
        /\ soil.groundwaterLevel # Null =>
              HasLine(LatestFig, "Groundwater level", off - soil.groundwaterLevel[1])
        /\ soil.groundwaterLevel = Null => ~HasLabel(LatestFig, "Groundwater level")
        /\ soil.predrilledDepth # Null =>
              HasLine(LatestFig, "Surface level", off - soil.predrilledDepth[1])
        /\ soil.predrilledDepth = Null => ~HasLabel(LatestFig, "Surface level")

\* C6: from_api_response called with a parse response alone succeeds, and
\* the following set_layer_table_from_api_response attaches the layer table.
C6_TwoStepConstruction ==
    /\ (last = "soil_from_api_response" /\ ~classify_given
            /\ "data" \in DOMAIN response_parse) =>
          (exc = "none" /\ soil # NoSoil)
    /\ last = "set_layer_table_from_api_response" => exc = "none"

\* the locator object behind the vertical axis of an Axes of figure i
LocatorObject(i, ax) ==
    IF figs[i].axes[ax].ylocator = "TickLoc"
    THEN <<"TickLoc", 0, "">>
    ELSE <<"own", i, ax>>

\* C7: figures are independent: no Axes of two different figures refer to the
\* same locator object, and the locator a figure refers to is still bound to
\* that figure's axis after later plot() calls.
C7_IndependentFigures ==
    \A i, j \in DOMAIN figs :
        /\ i # j =>
              \A a \in DOMAIN figs[i].axes, b \in DOMAIN figs[j].axes :
                  LocatorObject(i, a) # LocatorObject(j, b)
        /\ figs[i].axes["ax_qc"].ylocator = "TickLoc" => TickLoc = i

\* C9: metadata absent from the parse response takes its default, supplied
\* metadata is held unchanged, and verticalPositionOffset is always a number.
C9_MetadataDefaults ==
    (last = "soil_from_api_response" /\ exc = "none") =>
        LET d == response_parse
            has(k) == k \in DOMAIN d
        IN  /\ soil.verticalPositionReferencePoint =
                  (IF has("verticalPositionReferencePoint")
                   THEN d["verticalPositionReferencePoint"] ELSE "Unknown")
            /\ soil.label = (IF has("label") THEN d["label"] ELSE "Unknown")
            /\ soil.predrilledDepth =
                  (IF has("predrilledDepth") THEN d["predrilledDepth"] ELSE Null)
            /\ soil.groundwaterLevel =
                  (IF has("groundwaterLevel") THEN d["groundwaterLevel"] ELSE Null)
            /\ ~has("verticalPositionOffset") => soil.verticalPositionOffset = Some(0)
            /\ soil.verticalPositionOffset # Null

\* the parity of the rendering operations applied to a figure's shared axis
Odd(n) == n % 2 = 1

\* C10 as stated: after a rendering operation the vertical axis of its
\* target is inverted, in the figure returned by plot() too.
C10_AxisLeftInverted ==
    \A i \in DOMAIN figs :
        (~figs[i].raised /\ figs[i].calls > 0) =>
            \A a \in figs[i].sharey : figs[i].axes[a].yinv

\* C10, amended: each rendering operation toggles the inversion of its
\* target's vertical axis, so the axis is inverted exactly after an odd number
\* of operations on the Axes sharing it; in the figure returned by plot() the
\* four operations leave the shared depth axis not inverted.
C10_AxisToggled ==
    /\ \A i \in DOMAIN figs :
          ~figs[i].raised =>
              \A a \in figs[i].sharey :
                  figs[i].axes[a].yinv = Odd(figs[i].calls)
    /\ (last = "plot" /\ exc = "none") =>
          \A a \in CompositeAxes : ~LatestFig.axes[a].yinv

\* A figure returned by plot() beside a figure of one rendering operation.
C10_Witness ==
    \E i, j \in DOMAIN figs :
        /\ figs[i].kind = "composite" /\ figs[i].calls = Cardinality(CompositeAxes)
        /\ ~figs[i].axes["ax_qc"].yinv
        /\ figs[j].kind = "single" /\ figs[j].calls = 1
        /\ figs[j].axes["ax"].yinv

=============================================================================
